---- MODULE Spec2Model ----
(***************************************************************************)
(* Model of the gateway-rs dispatch pipeline: the Gateway (Semtech UDP     *)
(* ingress, RX1/RX2 downlink scheduling), the Router (routing table        *)
(* maintenance, uplink fan-out) and the routing table match function.      *)
(***************************************************************************)
EXTENDS Integers, Sequences, FiniteSets, Bags, TLC

(* ------------------------------ bounds -------------------------------- *)
\* largest height a RoutingResponse of the model carries
MaxHeight == 1
\* most Routing rows in one RoutingResponse
MaxRows == 2
\* most Routing rows in all the RoutingResponses of a recorded history
MaxHistoryRows == 3
\* most RoutingResponses recorded in the processed-updates history
MaxUpdates == 2
\* most fan-out tasks running at once while the whole pipeline runs
MaxTasks == 2
\* capacity of each of the two bounded mpsc queues
QueueCap == 1
\* most events the Semtech runtime holds for udp_runtime.recv()
MaxPending == 1

(* --------------------------- program constants ------------------------ *)
DOWNLINK_TIMEOUT_SECS == 5

(* ------------------------------ data ---------------------------------- *)
\* concentrator identifiers
Macs == {"m1", "m2"}
OUIs == {1, 2}
\* address.uri values of Routing rows: "http://r1" and "http://r2" parse and
\* connect, one is rejected by Uri::try_from, one makes mk_router_client fail
BadUri == "not a uri"
NoClientUri == "http://noclient"
\* a filter blob that does not decode to a filter
BadBlob == {0}
\* Settings.routers as configured: the candidate default router lists
DefaultRouterLists == {<<>>, <<"http://d1">>, <<"http://d1", "http://d2">>}

\* helium_proto::Routing rows the control plane may send. A filter blob is
\* modelled by the set of keys it contains (see EuiFilterFromBin).
Rows ==
  { [oui |-> 1, filters |-> <<{1}>>, subnets |-> <<>>,
     addresses |-> <<"http://r1">>],
    [oui |-> 1, filters |-> <<{2}>>, subnets |-> <<{1}>>,
     addresses |-> <<NoClientUri, "http://r2", BadUri>>],
    [oui |-> 2, filters |-> <<{1}, {2}>>, subnets |-> <<{2}>>,
     addresses |-> <<"http://r1", "http://r2">>],
    [oui |-> 2, filters |-> <<{2}>>, subnets |-> <<>>,
     addresses |-> <<>>],
    [oui |-> 2, filters |-> <<{3}, BadBlob>>, subnets |-> <<>>,
     addresses |-> <<"http://r2">>] }

RECURSIVE SeqsUpTo(_, _)
SeqsUpTo(S, n) ==
  IF n = 0 THEN {<<>>}
  ELSE LET shorter == SeqsUpTo(S, n - 1)
       IN shorter \cup {Append(s, x) : s \in {t \in shorter : Len(t) = n - 1}, x \in S}

\* RoutingResponse { height, routings }
RoutingResponsesUpTo(n) ==
  [height : 0..MaxHeight, routings : SeqsUpTo(Rows, n)]

\* RoutingInformation of an uplink: packet.routing is None ("none"), Some with
\* data None ("nodata"), or Some with an Eui or a Devaddr routing key
EuiKeys == {1, 2, 3}
DevAddrKeys == {1, 2}
RoutingInfos ==
  {[kind |-> "none", key |-> 0], [kind |-> "nodata", key |-> 0]}
  \cup [kind : {"eui"}, key : EuiKeys] \cup [kind : {"devaddr"}, key : DevAddrKeys]

\* uplink LinkPackets (LoRaWAN frames) as lifted from an RXPK
UplinkPackets ==
  [gateway_mac : Macs, packet : [type : {"lorawan"}, routing : RoutingInfos]]

NoRouting == [kind |-> "none", key |-> 0]
\* the RXPKs of PacketReceived events: one that does not lift, a LongFi frame,
\* LoRaWAN frames without routing information and with a join EUI
RxPks ==
  {[frame |-> "malformed", routing |-> NoRouting],
   [frame |-> "longfi", routing |-> NoRouting],
   [frame |-> "lorawan", routing |-> NoRouting],
   [frame |-> "lorawan", routing |-> [kind |-> "eui", key |-> 1]]}
NoRxPk == [frame |-> "none", routing |-> NoRouting]
\* semtech_udp::server_runtime::Event
Events ==
  [kind : {"UnableToParseUdpFrame", "RawPacket"}, mac : {"m1"}, rxpk : {NoRxPk}]
  \cup [kind : {"NewClient", "UpdateClient", "NoClientWithMac"}, mac : Macs, rxpk : {NoRxPk}]
  \cup [kind : {"PacketReceived"}, mac : Macs, rxpk : RxPks]
\* what awaiting a dispatch yields: Ok(()), Err(AckError(NONE)),
\* Err(AckError(TOO_EARLY)), Err(AckError(TOO_LATE)), another ack error, and
\* another SemtechError (no acknowledgement within DOWNLINK_TIMEOUT_SECS)
DispatchResults ==
  {"Ok", "NONE", "TOO_EARLY", "TOO_LATE", "COLLISION_PACKET", "TIMEOUT"}
NoPacket == [gateway_mac |-> "none"]

VARIABLES
  routing_height,   \* Router.routing_height
  clients,          \* Router.clients: HashMap<u32, Routing>, a function on the OUIs present
  default_clients,  \* Router.default_clients
  warned,           \* whether the last routing update logged the invalid-height warning
  updates,          \* history: the RoutingResponses handled so far, in order
  tasks,            \* the spawned fan-out tasks still running, a bag
  handled,          \* the last handle_uplink call: its uplink, result, envelopes, spawned tasks
  uplinks,          \* the uplinks queue (Gateway -> Router), oldest first
  downlinks,        \* the downlinks queue (fan-out tasks -> Gateway), oldest first
  gw_pc,            \* where Gateway::run is: "select", "send_uplink", "rx1", "rx2"
  gw_uplink,        \* the packet of a pending uplinks.send(packet)
  gw_downlink,      \* the downlink handle_downlink was last called with
  dispatches,       \* the dispatches of that handle_downlink call, in order
  gw_log,           \* what the last handle_udp_event call logged
  udp_events,       \* the events udp_runtime.recv() has yet to yield, oldest first
  shutdown,         \* whether the shared shutdown signal has fired
  rt_pc,            \* where Router::run is: "select", "returned" (Ok(())), "panicked"
  stream,           \* the routing stream: "open", "ended" (it yielded Ok(None)), "failed"
  downlinks_open    \* whether a Sender of the downlinks queue is still alive

routerVars == <<routing_height, clients, default_clients, warned>>
gwVars == <<gw_pc, gw_uplink, gw_downlink, dispatches, gw_log>>
\* the shutdown signal, the Router's position, the stream and the senders
ctlVars == <<shutdown, rt_pc, stream, downlinks_open>>
vars == <<routing_height, clients, default_clients, warned, updates, tasks, handled,
          uplinks, downlinks, gw_pc, gw_uplink, gw_downlink, dispatches, gw_log,
          udp_events, shutdown, rt_pc, stream, downlinks_open>>

(* ------------------------- router/routing.rs -------------------------- *)
\* EuiFilter::from_bin / DevAddrFilter::from_bin: blob -> filter
EuiFilterFromBin(blob) == [kind |-> "eui", members |-> blob]
DevAddrFilterFromBin(blob) == [kind |-> "devaddr", members |-> blob]
\* EuiFilter::contains / DevAddrFilter::contains
FilterContains(filter, key) == key \in filter.members

\* Uri::try_from(&address.uri[..])
UriTryFrom(uri) == IF uri = BadUri THEN [ok |-> FALSE] ELSE [ok |-> TRUE, val |-> uri]
\* mk_router_client(uri): Endpoint::from(uri).timeout(..).connect_lazy()?
mk_router_client(uri) ==
  IF uri = NoClientUri THEN [ok |-> FALSE] ELSE [ok |-> TRUE, val |-> uri]

MapSeq(Op(_), s) == [i \in 1..Len(s) |-> Op(s[i])]

RECURSIVE FilterMapClients(_)
\* the filter_map over r.addresses: an address whose URI or client fails is left out
FilterMapClients(addresses) ==
  IF addresses = <<>> THEN <<>>
  ELSE LET uri == UriTryFrom(Head(addresses))
           rest == FilterMapClients(Tail(addresses))
       IN IF ~uri.ok THEN rest
          ELSE LET client == mk_router_client(uri.val)
               IN IF client.ok THEN <<client.val>> \o rest ELSE rest

\* impl From<&helium_proto::Routing> for Routing
RoutingFrom(r) ==
  [filters |-> MapSeq(EuiFilterFromBin, r.filters),
   subnets |-> MapSeq(DevAddrFilterFromBin, r.subnets),
   clients |-> FilterMapClients(r.addresses)]

\* whether every sub-step of building the entry of row r succeeds: each
\* filter blob decodes, each URI parses, each client can be made
RowBuilds(r) ==
  /\ \A i \in 1..Len(r.filters) : r.filters[i] # BadBlob
  /\ \A i \in 1..Len(r.subnets) : r.subnets[i] # BadBlob
  /\ \A i \in 1..Len(r.addresses) :
       /\ UriTryFrom(r.addresses[i]).ok
       /\ mk_router_client(UriTryFrom(r.addresses[i]).val).ok

\* routing::Routing::from_proto(routing) -> Result<Routing>
from_proto(r) ==
  IF RowBuilds(r) THEN [ok |-> TRUE, val |-> RoutingFrom(r)] ELSE [ok |-> FALSE]

(* --------------------------- router/mod.rs ---------------------------- *)
\* a wrong insert: an OUI already present keeps its entry
MapInsertKeepOld(map, k, v) == map @@ (k :> v)

\* HashMap::insert(k, v)
MapInsert(map, k, v) == (k :> v) @@ map

RECURSIVE InsertRoutingsAborting(_, _)
\* a wrong loop: the first row that cannot be built ends the update
InsertRoutingsAborting(map, routings) ==
  IF routings = <<>> THEN map
  ELSE LET routing == Head(routings)
           built == from_proto(routing)
       IN IF built.ok
          THEN InsertRoutingsAborting(MapInsert(map, routing.oui, built.val), Tail(routings))
          ELSE map

RECURSIVE InsertRoutings(_, _)
\* the for loop of handle_routing_update over routing_response.routings
InsertRoutings(map, routings) ==
  IF routings = <<>> THEN map
  ELSE LET routing == Head(routings)
           built == from_proto(routing)
       IN InsertRoutings(IF built.ok THEN MapInsert(map, routing.oui, built.val) ELSE map,
                         Tail(routings))

\* a wrong update: the table is rebuilt from the rows of the response alone
handle_routing_update_replacing(height, map, routing_response) ==
  [warned |-> routing_response.height <= height,
   clients |-> InsertRoutings(<<>>, routing_response.routings),
   routing_height |-> routing_response.height]

\* a wrong update: a response that is not newer leaves the height alone
handle_routing_update_keep_height(height, map, routing_response) ==
  [warned |-> routing_response.height <= height,
   clients |-> InsertRoutings(map, routing_response.routings),
   routing_height |-> IF routing_response.height <= height
                      THEN height ELSE routing_response.height]

\* Router::handle_routing_update: the Router's fields after the call
handle_routing_update(height, map, routing_response) ==
  [warned |-> routing_response.height <= height,
   clients |-> InsertRoutings(map, routing_response.routings),
   routing_height |-> routing_response.height]

(* ----------------------- router/routing.rs: match --------------------- *)
\* a wrong match: both filter families are consulted whatever the key is
matches_any_filter(routing, routing_data) ==
  \/ \E i \in 1..Len(routing.filters) :
       FilterContains(routing.filters[i], routing_data.key)
  \/ \E i \in 1..Len(routing.subnets) :
       FilterContains(routing.subnets[i], routing_data.key)

\* Routing::matches_routing_data
matches_routing_data(routing, routing_data) ==
  IF routing_data.kind = "eui"
  THEN \E i \in 1..Len(routing.filters) :
         FilterContains(routing.filters[i], routing_data.key)
  ELSE \E i \in 1..Len(routing.subnets) :
         FilterContains(routing.subnets[i], routing_data.key)

(* ---------------------- router/mod.rs: handle_uplink ------------------ *)
\* the orders in which HashMap::values() may yield the entries of map
ValueOrders(map) ==
  {order \in [1..Cardinality(DOMAIN map) -> DOMAIN map] :
     \A i, j \in 1..Cardinality(DOMAIN map) : i # j => order[i] # order[j]}

RECURSIVE FlatMapClientsUnfiltered(_, _, _)
\* a wrong selection: the clients of every entry, matching or not
FlatMapClientsUnfiltered(map, order, routing_data) ==
  IF order = <<>> THEN <<>>
  ELSE map[Head(order)].clients \o FlatMapClientsUnfiltered(map, Tail(order), routing_data)

RECURSIVE FlatMapClients(_, _, _)
\* .values().filter(matches_routing_data).flat_map(clients.clone()).collect()
FlatMapClients(map, order, routing_data) ==
  IF order = <<>> THEN <<>>
  ELSE LET routing == map[Head(order)]
           rest == FlatMapClients(map, Tail(order), routing_data)
       IN IF matches_routing_data(routing, routing_data)
          THEN routing.clients \o rest ELSE rest

\* a wrong fallback: the default routers are always targeted as well
router_clients_with_defaults(map, defaults, uplink, order) ==
  IF uplink.packet.routing.kind \in {"eui", "devaddr"}
  THEN FlatMapClients(map, order, uplink.packet.routing) \o defaults
  ELSE <<>>

\* Router::router_clients_for_uplink
router_clients_for_uplink(map, defaults, uplink, order) ==
  IF uplink.packet.routing.kind \in {"eui", "devaddr"}
  THEN LET found == FlatMapClients(map, order, uplink.packet.routing)
       IN IF found = <<>> THEN defaults ELSE found
  ELSE <<>>

\* LinkPacket::to_state_channel_message(&keypair, region): the signed envelope
to_state_channel_message(uplink) ==
  [packet |-> uplink.packet, hotspot |-> "public key", region |-> "region",
   signature |-> <<"signed", uplink.packet>>]

\* a wrong guard: an uplink without routing information is not dropped
HasRoutingAlways(uplink) == TRUE

\* !uplink.packet.routing.is_none()
HasRouting(uplink) == uplink.packet.routing.kind # "none"

\* a wrong capture: every task answers to the first concentrator
FanOutTaskFirstMac(client, message, gateway_mac, uplink) ==
  [client |-> client, message |-> message, gateway_mac |-> "m1",
   origin |-> uplink, pc |-> "route", downlink |-> NoPacket]

\* the task tokio::spawn starts for one target client, with the message, the
\* client and the gateway_mac it captures; origin is the uplink it is for
FanOutTask(client, message, gateway_mac, uplink) ==
  [client |-> client, message |-> message, gateway_mac |-> gateway_mac,
   origin |-> uplink, pc |-> "route", downlink |-> NoPacket]

\* a wrong fan-out: the message is built and signed again for every target
handle_uplink_resigning(map, defaults, uplink, sign_ok, order) ==
  IF ~HasRouting(uplink) THEN [result |-> "Ok", envelopes |-> <<>>, spawned |-> <<>>]
  ELSE IF ~sign_ok THEN [result |-> "Err", envelopes |-> <<>>, spawned |-> <<>>]
  ELSE LET targets == router_clients_for_uplink(map, defaults, uplink, order)
       IN [result |-> "Ok",
           envelopes |-> [i \in 1..Len(targets) |-> to_state_channel_message(uplink)],
           spawned |-> [i \in 1..Len(targets) |->
                          FanOutTask(targets[i], to_state_channel_message(uplink),
                                     uplink.gateway_mac, uplink)]]

\* Router::handle_uplink: its result, the envelopes it signed and the tasks it
\* spawned; sign_ok is whether to_state_channel_message succeeds
handle_uplink(map, defaults, uplink, sign_ok, order) ==
  IF ~HasRouting(uplink) THEN [result |-> "Ok", envelopes |-> <<>>, spawned |-> <<>>]
  ELSE IF ~sign_ok THEN [result |-> "Err", envelopes |-> <<>>, spawned |-> <<>>]
  ELSE LET gateway_mac == uplink.gateway_mac
           message == to_state_channel_message(uplink)
           targets == router_clients_for_uplink(map, defaults, uplink, order)
       IN [result |-> "Ok",
           envelopes |-> <<message>>,
           spawned |-> [i \in 1..Len(targets) |->
                          FanOutTask(targets[i], message, gateway_mac, uplink)]]

RECURSIVE SeqToBag(_)
SeqToBag(s) == IF s = <<>> THEN EmptyBag ELSE SetToBag({Head(s)}) (+) SeqToBag(Tail(s))

(* ------------------------------ gateway.rs ---------------------------- *)
\* LinkPacket::from_push_data(&rxpk, gateway_mac) -> Result<LinkPacket>
from_push_data(rxpk, gateway_mac) ==
  IF rxpk.frame = "malformed" THEN [ok |-> FALSE]
  ELSE [ok |-> TRUE,
        val |-> [gateway_mac |-> gateway_mac,
                 packet |-> [type |-> rxpk.frame, routing |-> rxpk.routing]]]
\* LinkPacket::is_longfi
is_longfi(packet) == packet.packet.type = "longfi"

\* what handle_udp_event logs for the events that carry no packet
EventLog(event) ==
  CASE event.kind = "UnableToParseUdpFrame" -> "ignoring semtech udp parsing error"
    [] event.kind = "NewClient" -> "new packet forwarder client"
    [] event.kind = "UpdateClient" -> "mac existed, but IP updated"
    [] event.kind = "NoClientWithMac" -> "send to client with unknown MAC"
    [] OTHER -> ""

\* a wrong filter: LongFi packets are sent like the others
handle_udp_event_unfiltered(event) ==
  IF event.kind = "PacketReceived"
  THEN LET lift == from_push_data(event.rxpk, event.mac)
       IN IF lift.ok THEN [sends |-> <<lift.val>>, log |-> ""]
          ELSE [sends |-> <<>>, log |-> "ignoring push_data"]
  ELSE [sends |-> <<>>, log |-> EventLog(event)]

\* Gateway::handle_udp_event: the packets it sends on uplinks (none or one)
\* and what it logs
handle_udp_event(event) ==
  IF event.kind = "PacketReceived"
  THEN LET lift == from_push_data(event.rxpk, event.mac)
       IN IF lift.ok /\ is_longfi(lift.val)
          THEN [sends |-> <<>>, log |-> "ignoring longfi packet"]
          ELSE IF lift.ok THEN [sends |-> <<lift.val>>, log |-> ""]
          ELSE [sends |-> <<>>, log |-> "ignoring push_data"]
  ELSE [sends |-> <<>>, log |-> EventLog(event)]

\* UdpRuntime::prepare_empty_downlink(mac): a transmit slot for a concentrator
prepare_empty_downlink(mac) == [gateway_mac |-> mac]
\* the slots handle_downlink prepares: (downlink_rx1, downlink_rx2)
Rx1Slot(downlink) == prepare_empty_downlink(downlink.gateway_mac)
Rx2Slot(downlink) == prepare_empty_downlink(downlink.gateway_mac)

\* LinkPacket::to_pull_resp(use_rx2) -> Option<TxPk>, as a sequence of none or one
to_pull_resp(downlink, use_rx2) ==
  IF ~use_rx2 THEN <<[window |-> 1]>>
  ELSE IF downlink.packet.rx2 THEN <<[window |-> 2]>>
  ELSE <<>>

\* a wrong retry test: every error of the RX1 dispatch is retried
Rx1RetriesAnyError(result) == result \notin {"Ok", "NONE"}

\* the first match arm on the RX1 dispatch: AckError(TOO_EARLY) | AckError(TOO_LATE)
Rx1Retries(result) == result \in {"TOO_EARLY", "TOO_LATE"}

\* a wrong retry: the RX1 form is sent again
RetryPullRespRx1(downlink) == to_pull_resp(downlink, FALSE)

\* if let Some(pull_resp) = downlink.to_pull_resp(true)
RetryPullResp(downlink) == to_pull_resp(downlink, TRUE)

\* a dispatch of a pull response on a slot, awaiting its acknowledgement
Dispatch(slot, pull_resp) ==
  [window |-> pull_resp.window, gateway_mac |-> slot.gateway_mac, result |-> "pending"]

\* LinkPacket::from_state_channel_message(response, gateway_mac) -> Option<LinkPacket>;
\* origin is the mac of the uplink the answered message was built from
from_state_channel_message(response, gateway_mac) ==
  IF response.downlink = <<>> THEN <<>>
  ELSE <<[gateway_mac |-> gateway_mac, packet |-> response.downlink[1],
          origin |-> response.origin]>>

\* what a route RPC answers to a task in the whole-pipeline runs: no downlink,
\* or a downlink that has an RX2 window
RouteResponses(task) ==
  [downlink : {<<>>, <<[rx2 |-> TRUE]>>}, origin : {task.origin.gateway_mac}]

(* ------------------------------ actions ------------------------------- *)
Min(a, b) == IF a <= b THEN a ELSE b

RECURSIVE HistoryRows(_)
\* the number of rows the responses of a history carry
HistoryRows(history) ==
  IF history = <<>> THEN 0
  ELSE Len(Head(history).routings) + HistoryRows(Tail(history))

InitRouter ==
  /\ routing_height = 0
  /\ clients = <<>>
  /\ default_clients \in DefaultRouterLists
  /\ warned = FALSE

\* Gateway::new, and Gateway::run about to enter its loop
InitGateway ==
  /\ gw_pc = "select"
  /\ gw_uplink = NoPacket
  /\ gw_downlink = NoPacket
  /\ dispatches = <<>>
  /\ gw_log = "starting gateway"

\* the two queues as created, no task spawned, nothing recorded
InitRest ==
  /\ InitGateway
  /\ uplinks = <<>>
  /\ downlinks = <<>>
  /\ tasks = EmptyBag
  /\ updates = <<>>
  /\ handled = [called |-> FALSE]
  /\ udp_events = <<>>
  /\ shutdown = FALSE
  /\ rt_pc = "select"
  /\ stream = "open"
  /\ downlinks_open = TRUE

\* Router::run, routing_stream.message() yields Ok(Some(response)); the
\* response is also recorded in the history
RoutingUpdateRecorded ==
  /\ rt_pc = "select" /\ stream = "open"
  /\ Len(updates) < MaxUpdates
  /\ \E response \in RoutingResponsesUpTo(Min(MaxRows, MaxHistoryRows - HistoryRows(updates))) :
       LET after == handle_routing_update(routing_height, clients, response)
       IN /\ routing_height' = after.routing_height
          /\ clients' = after.clients
          /\ warned' = after.warned
          /\ updates' = Append(updates, response)
  /\ UNCHANGED <<ctlVars, udp_events, default_clients, tasks, handled, uplinks, downlinks, gwVars>>

InitRouting ==
  /\ InitRouter
  /\ default_clients = <<"http://d1">>
  /\ InitRest
NextRouting == RoutingUpdateRecorded
SpecRouting == InitRouting /\ [][NextRouting]_vars

\* the responses handed to the Router when it also handles uplinks: one row each
SingleRowResponses == RoutingResponsesUpTo(1)

\* Router::run, routing_stream.message() yields Ok(Some(response)); updates
\* keeps the response handled last
RouterRoutingUpdate ==
  /\ rt_pc = "select" /\ stream = "open"
  /\ \E response \in SingleRowResponses :
       LET after == handle_routing_update(routing_height, clients, response)
       IN /\ routing_height' = after.routing_height
          /\ clients' = after.clients
          /\ warned' = after.warned
          /\ updates' = <<response>>
  /\ UNCHANGED <<ctlVars, udp_events, default_clients, tasks, handled, uplinks, downlinks,
                 gwVars>>

\* a wrong loop: a failed uplink ends Router::run
AfterUplinkErrReturns(result) == IF result = "Err" THEN "returned" ELSE "select"

\* Router::run, the match on the result of handle_uplink: Ok(()) => (), Err(err)
\* => debug!(..); either way the loop goes on
AfterUplink(result) == "select"

\* handle_uplink(uplink) as called by Router::run, the call recorded in handled
\* with the state of the stream at the call and the result of the call before
HandleUplinkRecorded(uplink) ==
  \E sign_ok \in BOOLEAN, order \in ValueOrders(clients) :
    LET call == handle_uplink(clients, default_clients, uplink, sign_ok, order)
    IN /\ tasks' = tasks (+) SeqToBag(call.spawned)
       /\ handled' = [called |-> TRUE, uplink |-> uplink, result |-> call.result,
                      envelopes |-> call.envelopes, spawned |-> call.spawned,
                      stream |-> stream,
                      previous |-> IF handled.called THEN handled.result ELSE "none"]
       /\ rt_pc' = AfterUplink(call.result)

\* the uplinks handed to the Router alone: those of one concentrator
RouterUplinks == {uplink \in UplinkPackets : uplink.gateway_mac = "m1"}

\* Router::run, uplinks.recv() yields Some(packet): the Router is handed an
\* uplink once the fan-out tasks of the earlier one have ended
RouterUplinkArrives ==
  /\ rt_pc = "select"
  /\ tasks = EmptyBag
  /\ \E uplink \in RouterUplinks : HandleUplinkRecorded(uplink)
  /\ UNCHANGED <<shutdown, stream, downlinks_open, udp_events, routerVars, updates,
                 uplinks, downlinks, gwVars>>

\* a wrong loop: a transport error of the stream is logged and the loop goes on
AfterStreamMessageErrLogged(message) == "select"

\* Router::run, the match on routing_stream.message(): Ok(Some(_)) is handled,
\* Ok(None) is logged, Err(err) is logged and panics
AfterStreamMessage(message) == IF message = "Err" THEN "panicked" ELSE "select"

\* Router::run, routing_stream.message() yields Ok(None): the stream has ended
RouterStreamEnded ==
  /\ rt_pc = "select" /\ stream = "open"
  /\ stream' = "ended"
  /\ rt_pc' = AfterStreamMessage("None")
  /\ UNCHANGED <<shutdown, downlinks_open, udp_events, routerVars, updates, handled,
                 tasks, uplinks, downlinks, gwVars>>

\* Router::run, routing_stream.message() yields Err(err): a transport error
RouterStreamError ==
  /\ rt_pc = "select" /\ stream = "open"
  /\ stream' = "failed"
  /\ rt_pc' = AfterStreamMessage("Err")
  /\ UNCHANGED <<shutdown, downlinks_open, udp_events, routerVars, updates, handled,
                 tasks, uplinks, downlinks, gwVars>>

\* a fan-out task whose route RPC fails: client.route(message) yields Err
TaskRouteError ==
  /\ \E task \in BagToSet(tasks) :
       /\ task.pc = "route"
       /\ tasks' = tasks (-) SetToBag({task})
  /\ UNCHANGED <<ctlVars, udp_events, routerVars, updates, handled, uplinks, downlinks, gwVars>>

(* --------------------------- pipeline actions ------------------------- *)
\* Gateway::run, udp_runtime.recv() yields event: handle_udp_event, whose
\* uplinks.send(packet).await completes at once if the queue has room
GwHandleUdpEvent(event) ==
  /\ gw_pc = "select"
  /\ LET handling == handle_udp_event(event)
     IN /\ gw_log' = handling.log
        /\ IF handling.sends = <<>>
           THEN UNCHANGED <<uplinks, gw_pc, gw_uplink>>
           ELSE IF Len(uplinks) < QueueCap
           THEN /\ uplinks' = Append(uplinks, handling.sends[1])
                /\ UNCHANGED <<gw_pc, gw_uplink>>
           ELSE /\ gw_pc' = "send_uplink"
                /\ gw_uplink' = handling.sends[1]
                /\ UNCHANGED uplinks
  /\ UNCHANGED <<ctlVars, routerVars, updates, handled, tasks, downlinks, gw_downlink,
                 dispatches>>

\* any event of the Semtech runtime, handled as soon as the runtime has it
GwUdpEvent == (\E event \in Events : GwHandleUdpEvent(event)) /\ UNCHANGED udp_events

\* the events of the whole-pipeline runs: LoRaWAN frames that carry a routing
\* key, received by either concentrator
UplinkEvents ==
  {event \in Events : event.kind = "PacketReceived" /\ event.rxpk.routing.kind = "eui"}
GwUplinkEvent ==
  (\E event \in UplinkEvents : GwHandleUdpEvent(event)) /\ UNCHANGED udp_events

\* the pending uplinks.send(packet).await completes when the queue has room
GwSendUplink ==
  /\ gw_pc = "send_uplink"
  /\ Len(uplinks) < QueueCap
  /\ uplinks' = Append(uplinks, gw_uplink)
  /\ gw_pc' = "select"
  /\ gw_uplink' = NoPacket
  /\ UNCHANGED <<ctlVars, udp_events, routerVars, updates, handled, tasks, downlinks, gw_downlink,
                 dispatches, gw_log>>

\* a wrong select: taking the downlinks branch loses the event the other
\* branch had ready
GwRecvDownlinkLosingEvent ==
  /\ gw_pc = "select"
  /\ downlinks # <<>>
  /\ LET downlink == Head(downlinks)
         pull_resp == to_pull_resp(downlink, FALSE)[1]
     IN /\ gw_downlink' = downlink
        /\ dispatches' = <<Dispatch(Rx1Slot(downlink), pull_resp)>>
  /\ downlinks' = Tail(downlinks)
  /\ udp_events' = IF udp_events = <<>> THEN udp_events ELSE Tail(udp_events)
  /\ gw_pc' = "rx1"
  /\ UNCHANGED <<ctlVars, routerVars, updates, handled, tasks, uplinks, gw_uplink, gw_log>>

\* Gateway::run, downlinks.recv() yields Some(packet): handle_downlink up to
\* the await of the RX1 dispatch
GwRecvDownlink ==
  /\ gw_pc = "select"
  /\ downlinks # <<>>
  /\ LET downlink == Head(downlinks)
         pull_resp == to_pull_resp(downlink, FALSE)[1]
     IN /\ gw_downlink' = downlink
        /\ dispatches' = <<Dispatch(Rx1Slot(downlink), pull_resp)>>
  /\ downlinks' = Tail(downlinks)
  /\ gw_pc' = "rx1"
  /\ UNCHANGED <<ctlVars, udp_events, routerVars, updates, handled, tasks, uplinks, gw_uplink, gw_log>>

\* the RX1 dispatch returns result: retry on the RX2 slot if it was too early or
\* too late and the packet has an RX2 form, otherwise handle_downlink returns
GwRx1Returns(result) ==
  /\ gw_pc = "rx1"
  /\   LET done == [dispatches EXCEPT ![1].result = result]
           retry == IF Rx1Retries(result) THEN RetryPullResp(gw_downlink) ELSE <<>>
       IN IF retry # <<>>
          THEN /\ dispatches' = Append(done, Dispatch(Rx2Slot(gw_downlink), retry[1]))
               /\ gw_pc' = "rx2"
          ELSE /\ dispatches' = done
               /\ gw_pc' = "select"
  /\ UNCHANGED <<ctlVars, udp_events, routerVars, updates, handled, tasks, uplinks, downlinks, gw_uplink,
                 gw_downlink, gw_log>>

\* the RX2 dispatch returns: whatever the result, handle_downlink returns Ok
GwRx2Returns(result) ==
  /\ gw_pc = "rx2"
  /\ dispatches' = [dispatches EXCEPT ![Len(dispatches)].result = result]
  /\ gw_pc' = "select"
  /\ UNCHANGED <<ctlVars, udp_events, routerVars, updates, handled, tasks, uplinks, downlinks, gw_uplink,
                 gw_downlink, gw_log>>

\* a dispatch returns any of its results
GwRx1Result == \E result \in DispatchResults : GwRx1Returns(result)
GwRx2Result == \E result \in DispatchResults : GwRx2Returns(result)

\* the dispatch results of the whole-pipeline runs: acknowledged, or too late
PipelineResults == {"Ok", "TOO_LATE"}
GwRx1Acked == \E result \in PipelineResults : GwRx1Returns(result)
GwRx2Acked == \E result \in PipelineResults : GwRx2Returns(result)

\* the one response the control plane sends while the pipeline runs
PipelineResponses ==
  {r \in SingleRowResponses :
     r.height = 1 /\ r.routings # <<>> /\ r.routings[1].addresses = <<"http://r1">>}

\* Router::run, routing_stream.message() yields Ok(Some(response))
RouterPipelineUpdate ==
  /\ rt_pc = "select" /\ stream = "open"
  /\ \E response \in PipelineResponses :
       LET after == handle_routing_update(routing_height, clients, response)
       IN /\ routing_height' = after.routing_height
          /\ clients' = after.clients
          /\ warned' = after.warned
  /\ UNCHANGED <<ctlVars, udp_events, default_clients, updates, tasks, handled, uplinks, downlinks, gwVars>>

\* a wrong fan-out: handle_uplink awaits the route RPC and sends the downlink
\* itself, so Router::run waits for room in the downlinks queue
RouterRecvUplinkInline ==
  /\ rt_pc = "select"
  /\ uplinks # <<>>
  /\ Len(downlinks) < QueueCap
  /\ downlinks' = Append(downlinks, [gateway_mac |-> Head(uplinks).gateway_mac,
                                     packet |-> [rx2 |-> TRUE],
                                     origin |-> Head(uplinks).gateway_mac])
  /\ uplinks' = Tail(uplinks)
  /\ UNCHANGED <<ctlVars, udp_events, routerVars, updates, handled, tasks, gwVars>>

\* Router::run, uplinks.recv() yields Some(packet): handle_uplink. Once
\* MaxTasks tasks are running, the route RPCs of the tasks it spawns fail at once
RouterRecvUplink ==
  /\ rt_pc = "select"
  /\ uplinks # <<>>
  /\ \E sign_ok \in BOOLEAN, order \in ValueOrders(clients) :
       LET call == handle_uplink(clients, default_clients, Head(uplinks), sign_ok, order)
       IN tasks' = IF BagCardinality(tasks) + Len(call.spawned) <= MaxTasks
                   THEN tasks (+) SeqToBag(call.spawned)
                   ELSE tasks
  /\ uplinks' = Tail(uplinks)
  /\ UNCHANGED <<ctlVars, udp_events, routerVars, updates, handled, downlinks, gwVars>>

\* a fan-out task whose route RPC answers: a downlink in the response is
\* sent on downlinks, at once if the queue has room
TaskRouteResponse ==
  /\ \E task \in BagToSet(tasks) :
       /\ task.pc = "route"
       /\ \E response \in RouteResponses(task) :
            LET downlink == from_state_channel_message(response, task.gateway_mac)
            IN IF downlink = <<>>
               THEN /\ tasks' = tasks (-) SetToBag({task})
                    /\ UNCHANGED downlinks
               ELSE IF Len(downlinks) < QueueCap
               THEN /\ tasks' = tasks (-) SetToBag({task})
                    /\ downlinks' = Append(downlinks, downlink[1])
               ELSE /\ tasks' = (tasks (-) SetToBag({task})) (+)
                                   SetToBag({[task EXCEPT !.pc = "send",
                                                          !.downlink = downlink[1]]})
                    /\ UNCHANGED downlinks
  /\ UNCHANGED <<ctlVars, udp_events, routerVars, updates, handled, uplinks, gwVars>>

\* the pending downlinks.send(downlink).await of a task completes
TaskSendDownlink ==
  /\ Len(downlinks) < QueueCap
  /\ \E task \in BagToSet(tasks) :
       /\ task.pc = "send"
       /\ tasks' = tasks (-) SetToBag({task})
       /\ downlinks' = Append(downlinks, task.downlink)
  /\ UNCHANGED <<ctlVars, udp_events, routerVars, updates, handled, uplinks, gwVars>>

Init ==
  /\ InitRouter
  /\ default_clients = <<"http://d1">>
  /\ InitRest
Next ==
  \/ GwUplinkEvent \/ GwSendUplink \/ GwRecvDownlink \/ GwRx1Acked \/ GwRx2Acked
  \/ RouterPipelineUpdate \/ RouterRecvUplink
  \/ TaskRouteResponse \/ TaskRouteError \/ TaskSendDownlink
Spec == Init /\ [][Next]_vars

(* ------------------------------ shutdown ------------------------------ *)
\* the shared shutdown signal fires (triggered::Trigger)
ShutdownFires ==
  /\ ~shutdown
  /\ shutdown' = TRUE
  /\ UNCHANGED <<rt_pc, stream, downlinks_open, udp_events, routerVars, updates, handled,
                 tasks, uplinks, downlinks, gwVars>>

\* Gateway::run, the shutdown branch of its select: return Ok(())
GwShutdown ==
  /\ gw_pc = "select"
  /\ shutdown
  /\ gw_pc' = "returned"
  /\ gw_log' = "shutting down"
  /\ UNCHANGED <<ctlVars, udp_events, routerVars, updates, handled, tasks, uplinks,
                 downlinks, gw_uplink, gw_downlink, dispatches>>

\* Router::run, the shutdown branch of its select: return Ok(())
RouterShutdown ==
  /\ rt_pc = "select"
  /\ shutdown
  /\ rt_pc' = "returned"
  /\ UNCHANGED <<shutdown, stream, downlinks_open, udp_events, routerVars, updates,
                 handled, tasks, uplinks, downlinks, gwVars>>

\* the events of the runs with shutdown: one LoRaWAN frame carrying a routing key
ShutdownEvents == {event \in UplinkEvents : event.mac = "m1"}
GwShutdownEvent ==
  (\E event \in ShutdownEvents : GwHandleUdpEvent(event)) /\ UNCHANGED udp_events

\* the whole pipeline with the shutdown signal, while the routing stream
\* stays healthy
NextShutdown ==
  \/ GwShutdownEvent \/ GwSendUplink \/ GwRecvDownlink \/ GwRx1Acked \/ GwRx2Acked
  \/ RouterPipelineUpdate \/ RouterRecvUplink
  \/ TaskRouteResponse \/ TaskRouteError \/ TaskSendDownlink
  \/ ShutdownFires \/ GwShutdown \/ RouterShutdown

\* tokio::select! picks among its ready branches at random, so a branch that
\* is ready again and again is taken; a dispatch returns within
\* DOWNLINK_TIMEOUT_SECS; a send completes once the queue has room, and the
\* waiting senders of a queue are served in turn. Nothing makes an event
\* arrive, a route RPC answer or the shutdown signal fire.
FairGateway ==
  /\ SF_vars(GwShutdown) /\ SF_vars(GwRecvDownlink)
  /\ WF_vars(GwSendUplink) /\ WF_vars(GwRx1Acked) /\ WF_vars(GwRx2Acked)
FairRouter ==
  /\ WF_vars(RouterShutdown) /\ WF_vars(RouterRecvUplink)
  /\ SF_vars(TaskSendDownlink)
SpecShutdown == Init /\ [][NextShutdown]_vars /\ FairGateway /\ FairRouter

(* ------------------- the Gateway and its two queues ------------------ *)
\* the downlinks a fan-out task may send
DownlinkPackets ==
  [gateway_mac : Macs, packet : [rx2 : BOOLEAN], origin : Macs]

\* the far end of uplinks: Router::run takes the oldest uplink (uplinks.recv())
UplinkTaken ==
  /\ uplinks # <<>>
  /\ uplinks' = Tail(uplinks)
  /\ UNCHANGED <<ctlVars, udp_events, routerVars, updates, handled, tasks, downlinks, gwVars>>

\* the far end of downlinks: a fan-out task sends a downlink (downlinks.send)
DownlinkArrives ==
  /\ downlinks_open
  /\ Len(downlinks) < QueueCap
  /\ \E downlink \in DownlinkPackets :
       /\ downlink.origin = downlink.gateway_mac
       /\ downlinks' = Append(downlinks, downlink)
  /\ UNCHANGED <<ctlVars, udp_events, routerVars, updates, handled, tasks, uplinks, gwVars>>

NextGateway ==
  \/ GwUdpEvent \/ GwSendUplink \/ GwRecvDownlink \/ GwRx1Result \/ GwRx2Result
  \/ UplinkTaken \/ DownlinkArrives
SpecGateway == Init /\ [][NextGateway]_vars

(* -------------- the Gateway with events and downlinks waiting --------- *)
\* a frame that carries a routing key; the runs below keep at most one such
\* frame on its way from the runtime to the far end of uplinks, and at most
\* one downlink with an RX2 form on its way to its dispatch, to follow them
KeyedRxPk(rxpk) == rxpk.routing.kind = "eui"
KeyedPacket(packet) == packet # NoPacket /\ packet.packet.routing.kind = "eui"
KeyedEventWaiting == \E i \in 1..Len(udp_events) : KeyedRxPk(udp_events[i].rxpk)
KeyedUplinkQueued == \E i \in 1..Len(uplinks) : KeyedPacket(uplinks[i])
Rx2DownlinkQueued == \E i \in 1..Len(downlinks) : downlinks[i].packet.rx2
Rx2DownlinkInHand ==
  gw_pc \in {"rx1", "rx2"} /\ gw_downlink # NoPacket /\ gw_downlink.packet.rx2

\* the events of these runs: PacketReceived by one concentrator, with a
\* LongFi frame or a LoRaWAN frame with or without a routing key
WaitingEvents ==
  {event \in Events : /\ event.kind = "PacketReceived" /\ event.mac = "m1"
                      /\ event.rxpk.frame \in {"longfi", "lorawan"}}

\* the Semtech runtime has an event for udp_runtime.recv()
UdpEventArrives ==
  /\ Len(udp_events) < MaxPending
  /\ \E event \in WaitingEvents :
       /\ KeyedRxPk(event.rxpk) =>
            ~(KeyedEventWaiting \/ KeyedUplinkQueued \/ KeyedPacket(gw_uplink))
       /\ udp_events' = Append(udp_events, event)
  /\ UNCHANGED <<ctlVars, routerVars, updates, handled, tasks, uplinks, downlinks, gwVars>>

\* Gateway::run, udp_runtime.recv() yields the oldest waiting event
GwRecvUdpEvent ==
  /\ udp_events # <<>>
  /\ GwHandleUdpEvent(Head(udp_events))
  /\ udp_events' = Tail(udp_events)

\* a wrong loop: a closed downlinks channel ends Gateway::run with an error
AfterDownlinksClosedFatal == "failed"

\* Gateway::run, downlinks.recv() yields None: debug!(..); continue
AfterDownlinksClosed == "select"

\* Gateway::run, downlinks.recv() yields None: every Sender is gone and the
\* queue is empty
GwDownlinksClosed ==
  /\ gw_pc = "select"
  /\ ~downlinks_open /\ downlinks = <<>>
  /\ gw_pc' = AfterDownlinksClosed
  /\ gw_log' = "ignoring closed downlinks channel"
  /\ UNCHANGED <<ctlVars, udp_events, routerVars, updates, handled, tasks, uplinks,
                 downlinks, gw_uplink, gw_downlink, dispatches>>

\* the far end of downlinks: the last Sender is dropped
SendersDropped ==
  /\ downlinks_open
  /\ downlinks_open' = FALSE
  /\ UNCHANGED <<shutdown, rt_pc, stream, udp_events, routerVars, updates, handled,
                 tasks, uplinks, downlinks, gwVars>>

\* the far end of downlinks: a fan-out task sends a downlink for the concentrator
WaitingDownlinkArrives ==
  /\ downlinks_open
  /\ Len(downlinks) < QueueCap
  /\ \E downlink \in DownlinkPackets :
       /\ downlink.gateway_mac = "m1" /\ downlink.origin = "m1"
       /\ downlink.packet.rx2 => ~(Rx2DownlinkQueued \/ Rx2DownlinkInHand)
       /\ downlinks' = Append(downlinks, downlink)
  /\ UNCHANGED <<ctlVars, udp_events, routerVars, updates, handled, tasks, uplinks, gwVars>>

NextWaiting ==
  \/ UdpEventArrives \/ GwRecvUdpEvent \/ GwSendUplink
  \/ GwRecvDownlink \/ GwRx1Acked \/ GwRx2Acked \/ GwDownlinksClosed
  \/ UplinkTaken \/ WaitingDownlinkArrives \/ SendersDropped
  \/ ShutdownFires \/ GwShutdown

\* the far end of uplinks keeps receiving (Router::run, whose handlers do not
\* block, takes its uplinks branch again and again)
FairFarEnd == WF_vars(UplinkTaken)
SpecWaiting ==
  Init /\ [][NextWaiting]_vars /\ FairGateway /\ SF_vars(GwRecvUdpEvent) /\ FairFarEnd

InitRouterAlone ==
  /\ InitRouter
  /\ InitRest
NextRouter ==
  \/ RouterRoutingUpdate \/ RouterUplinkArrives \/ TaskRouteError
  \/ RouterStreamEnded \/ RouterStreamError
SpecRouter == InitRouterAlone /\ [][NextRouter]_vars

(* ----------------------- routing update claims ------------------------ *)
\* the places <<response, row>> of the rows of the recorded history
RowPlaces ==
  {p \in (1..Len(updates)) \X (1..MaxRows) : p[2] <= Len(updates[p[1]].routings)}
RowAt(p) == updates[p[1]].routings[p[2]]
\* the places of the rows carrying oui whose entry could be built
BuiltPlaces(oui) == {p \in RowPlaces : RowAt(p).oui = oui /\ from_proto(RowAt(p)).ok}
PlaceAfter(p, q) == p[1] > q[1] \/ (p[1] = q[1] /\ p[2] > q[2])
LastBuiltPlace(oui) ==
  CHOOSE p \in BuiltPlaces(oui) : \A q \in BuiltPlaces(oui) : q = p \/ PlaceAfter(p, q)
StrictlyIncreasing(history) ==
  \A i \in 1..(Len(history) - 1) : history[i].height < history[i + 1].height

\* C1: after a sequence of RoutingResponses of strictly increasing height,
\* handled in order from the empty table, routing_height is the last
\* response's height and the table maps each OUI to the entry built from
\* the last successfully built row carrying that OUI (and holds no other OUI).
C1_LastWriterWins ==
  (updates # <<>> /\ StrictlyIncreasing(updates)) =>
    /\ routing_height = updates[Len(updates)].height
    /\ DOMAIN clients = {oui \in OUIs : BuiltPlaces(oui) # {}}
    /\ \A oui \in DOMAIN clients :
         clients[oui] = from_proto(RowAt(LastBuiltPlace(oui))).val

\* two responses of increasing height, an OUI written by both with different
\* rows, and another OUI written once
C1_Witness ==
  /\ Len(updates) = 2
  /\ StrictlyIncreasing(updates)
  /\ \E oui \in OUIs :
       \E p, q \in BuiltPlaces(oui) : p[1] = 1 /\ q[1] = 2 /\ RowAt(p) # RowAt(q)
  /\ DOMAIN clients = OUIs

\* C9: the routing height never decreases when a RoutingResponse is handled.
C9_HeightNeverDecreases == [][routing_height' >= routing_height]_vars

\* the last row of routings carrying oui whose entry could be built, if any
BuiltRowIndexes(routings, oui) ==
  {j \in 1..Len(routings) : routings[j].oui = oui /\ from_proto(routings[j]).ok}
Max(S) == CHOOSE x \in S : \A y \in S : y <= x

\* C10: handling a RoutingResponse whose height is at most the current height
\* logs the warning, applies every buildable row (the last one per OUI wins,
\* other OUIs keep their entry) and sets the height to the response's height.
C10_StaleUpdateApplied ==
  [][(updates' # updates /\ updates'[Len(updates')].height <= routing_height) =>
       LET response == updates'[Len(updates')]
       IN /\ warned'
          /\ routing_height' = response.height
          /\ \A oui \in OUIs :
               IF BuiltRowIndexes(response.routings, oui) # {}
               THEN /\ oui \in DOMAIN clients'
                    /\ clients'[oui] =
                         from_proto(response.routings[
                           Max(BuiltRowIndexes(response.routings, oui))]).val
               ELSE /\ (oui \in DOMAIN clients') = (oui \in DOMAIN clients)
                    /\ oui \in DOMAIN clients => clients'[oui] = clients[oui]]_vars

\* the height went from 1 down to 0 and the stale response replaced an entry
C10_Witness ==
  /\ Len(updates) = 2
  /\ updates[1].height = 1 /\ updates[2].height = 0
  /\ routing_height = 0
  /\ warned
  /\ \E oui \in OUIs :
       \E p, q \in BuiltPlaces(oui) : p[1] = 1 /\ q[1] = 2 /\ RowAt(p) # RowAt(q)

\* the rows of routings for which a sub-step of building the entry fails
FailingRowIndexes(routings) == {j \in 1..Len(routings) : ~RowBuilds(routings[j])}

MatchingOuis(map, routing_data) ==
  {oui \in DOMAIN map :
     LET family == IF routing_data.kind = "eui" THEN map[oui].filters ELSE map[oui].subnets
     IN \E i \in 1..Len(family) : routing_data.key \in family[i].members}
RECURSIVE ClientsOfOuis(_, _)
\* the clients of the entries of a set of OUIs, as a bag
ClientsOfOuis(map, ouis) ==
  IF ouis = {} THEN EmptyBag
  ELSE LET oui == CHOOSE o \in ouis : TRUE
       IN SeqToBag(map[oui].clients) (+) ClientsOfOuis(map, ouis \ {oui})
\* the clients the tasks of a handle_uplink call target, in spawn order
TargetsOf(call) == [i \in 1..Len(call.spawned) |-> call.spawned[i].client]
HasRoutingKey(uplink) == uplink.packet.routing.kind \in {"eui", "devaddr"}

\* C2: when handle_uplink fans out an uplink that carries a routing key, the
\* clients it targets are exactly the default routers if no entry matches the
\* key, and the default routers are targeted exactly when the clients of the
\* matching entries are none; otherwise the targets are those clients.
C2_FallbackExactlyWhenEmpty ==
  [][(handled' # handled /\ handled'.result = "Ok" /\ HasRoutingKey(handled'.uplink)) =>
       LET key == handled'.uplink.packet.routing
           matching == MatchingOuis(clients, key)
           computed == ClientsOfOuis(clients, matching)
           targets == TargetsOf(handled')
       IN /\ matching = {} => targets = default_clients
          /\ IF computed = EmptyBag THEN targets = default_clients
             ELSE SeqToBag(targets) = computed]_vars

\* an uplink whose key matches no entry of a non-empty table went to the
\* (non-empty) default routers
C2_Witness ==
  /\ handled.called /\ handled.result = "Ok" /\ HasRoutingKey(handled.uplink)
  /\ DOMAIN clients # {}
  /\ MatchingOuis(clients, handled.uplink.packet.routing) = {}
  /\ default_clients # <<>>
  /\ TargetsOf(handled) = default_clients

\* C3: handle_uplink of an uplink without routing information spawns no
\* fan-out task, signs nothing and returns Ok.
C3_NoRoutingNoFanOut ==
  (handled.called /\ handled.uplink.packet.routing.kind = "none") =>
    /\ handled.spawned = <<>>
    /\ handled.envelopes = <<>>
    /\ handled.result = "Ok"

\* such an uplink was handled with entries in the table and default routers configured
C3_Witness ==
  /\ handled.called /\ handled.uplink.packet.routing.kind = "none"
  /\ DOMAIN clients # {}
  /\ default_clients # <<>>

\* C4: one handle_uplink call signs at most one envelope, and every task it
\* spawns carries that envelope.
C4_SignedAtMostOnce ==
  handled.called =>
    /\ Len(handled.envelopes) <= 1
    /\ \A i \in 1..Len(handled.spawned) :
         /\ handled.envelopes # <<>>
         /\ handled.spawned[i].message = handled.envelopes[1]

\* an uplink fanned out to several targets under one envelope
C4_Witness ==
  /\ handled.called
  /\ Len(handled.spawned) >= 2
  /\ Len(handled.envelopes) = 1

\* the elements of a sequence
Range(seq) == {seq[i] : i \in 1..Len(seq)}

\* C11 as stated: when the key of a fanned-out uplink matches at least one
\* entry, the targets are the clients of the matching entries and none is a
\* default router; when it matches none, the targets are the default routers.
C11_MatchNeverUsesDefaults ==
  [][(handled' # handled /\ handled'.result = "Ok" /\ HasRoutingKey(handled'.uplink)) =>
       LET key == handled'.uplink.packet.routing
           matching == MatchingOuis(clients, key)
           targets == TargetsOf(handled')
       IN IF matching # {}
          THEN /\ SeqToBag(targets) = ClientsOfOuis(clients, matching)
               /\ Range(targets) \cap Range(default_clients) = {}
          ELSE targets = default_clients]_vars

\* C11 amended: when the key matches at least one entry and the matching
\* entries hold at least one client, the targets are those clients, one RPC per
\* occurrence, and none is a default router; when no entry matches, or the
\* matching entries hold no client at all, the targets are the default routers.
C11_MatchWithClientsNeverUsesDefaults ==
  [][(handled' # handled /\ handled'.result = "Ok" /\ HasRoutingKey(handled'.uplink)) =>
       LET key == handled'.uplink.packet.routing
           matching == MatchingOuis(clients, key)
           targets == TargetsOf(handled')
       IN IF matching # {} /\ \E oui \in matching : clients[oui].clients # <<>>
          THEN /\ SeqToBag(targets) = ClientsOfOuis(clients, matching)
               /\ Range(targets) \cap Range(default_clients) = {}
          ELSE targets = default_clients]_vars

\* an uplink whose key matches an entry that holds clients went to those
\* clients only, with default routers configured
C11_Witness ==
  /\ handled.called /\ handled.result = "Ok" /\ HasRoutingKey(handled.uplink)
  /\ default_clients # <<>>
  /\ \E oui \in MatchingOuis(clients, handled.uplink.packet.routing) :
       /\ clients[oui].clients # <<>>
       /\ Range(clients[oui].clients) \subseteq Range(TargetsOf(handled))
  /\ Range(TargetsOf(handled)) \cap Range(default_clients) = {}

\* C16: a handle_uplink call that fails to build the signed message returns
\* the error with no envelope and no task spawned; the step leaves the tasks,
\* the table, the height and the stream as they were and Router::run in its
\* loop, where, unless the stream fails, it can be handed the next uplink.
C16_SignFailureNonFatal ==
  /\ [][(handled' # handled /\ handled'.result = "Err") =>
          /\ handled'.spawned = <<>>
          /\ handled'.envelopes = <<>>
          /\ rt_pc' = "select"
          /\ UNCHANGED <<tasks, routerVars, stream>>]_vars
  /\ []((handled.called /\ handled.result = "Err" /\ stream # "failed") =>
          ENABLED RouterUplinkArrives)

\* the call before failed to sign, and this one fanned its uplink out by the
\* routing table
C16_Witness ==
  /\ handled.called
  /\ handled.previous = "Err"
  /\ handled.result = "Ok"
  /\ handled.spawned # <<>>
  /\ MatchingOuis(clients, handled.uplink.packet.routing) # {}

\* the routing keys an uplink may carry
RoutingKeys == {info \in RoutingInfos : info.kind \in {"eui", "devaddr"}}
\* the orders in which the OUIs of a set can be listed
OrdersOf(ouis) ==
  {order \in [1..Cardinality(ouis) -> ouis] :
     \A i, j \in 1..Cardinality(ouis) : i # j => order[i] # order[j]}
RECURSIVE ConcatClients(_, _)
\* the client lists of the entries of a list of OUIs, one after the other
ConcatClients(map, order) ==
  IF order = <<>> THEN <<>>
  ELSE map[Head(order)].clients \o ConcatClients(map, Tail(order))
\* how many times an endpoint occurs in a list of clients
Occurrences(client, list) == Cardinality({i \in 1..Len(list) : list[i] = client})

\* C17: an Eui key matches an entry iff one of its EuiFilters contains the key
\* and a Devaddr key iff one of its DevAddrFilters does, the other family never
\* being consulted; and when the matching entries hold a client, the targets
\* of a fanned-out uplink are the client lists of all matching entries one
\* after the other, in some order of the entries, nothing left out or merged.
C17_TagDispatchNoDedup ==
  /\ [](\A oui \in DOMAIN clients : \A key \in RoutingKeys :
          matches_routing_data(clients[oui], key) =
            IF key.kind = "eui"
            THEN \E i \in 1..Len(clients[oui].filters) :
                   key.key \in clients[oui].filters[i].members
            ELSE \E i \in 1..Len(clients[oui].subnets) :
                   key.key \in clients[oui].subnets[i].members)
  /\ [][(handled' # handled /\ handled'.result = "Ok" /\ HasRoutingKey(handled'.uplink)) =>
          LET matching == MatchingOuis(clients, handled'.uplink.packet.routing)
              targets == TargetsOf(handled')
          IN (\E oui \in matching : clients[oui].clients # <<>>) =>
               /\ \E order \in OrdersOf(matching) : targets = ConcatClients(clients, order)
               /\ \A client \in Range(targets) :
                    Occurrences(client, targets) =
                      Cardinality(UNION {{<<oui, i>> : i \in
                                            {i \in 1..Len(clients[oui].clients) :
                                               clients[oui].clients[i] = client}} :
                                         oui \in matching})]_vars

\* an endpoint held by two entries that both match the key was sent the
\* uplink twice
C17_Witness ==
  /\ handled.called /\ handled.result = "Ok" /\ HasRoutingKey(handled.uplink)
  /\ Cardinality(MatchingOuis(clients, handled.uplink.packet.routing)) = 2
  /\ \A oui \in MatchingOuis(clients, handled.uplink.packet.routing) :
       "http://r1" \in Range(clients[oui].clients)
  /\ Occurrences("http://r1", TargetsOf(handled)) = 2

\* C19: no step removes an OUI from the routing table; a step that handles a
\* RoutingResponse leaves the entry of every OUI without a row that builds in
\* that response as it was (present and equal, or absent); and a step that
\* handles an uplink or ends a fan-out task changes neither the table nor the
\* height.
C19_TableOnlyGrowsOrOverwrites ==
  [][/\ DOMAIN clients \subseteq DOMAIN clients'
     /\ (updates' # updates \/ routerVars' # routerVars) =>
          /\ updates' # <<>>
          /\ \A oui \in OUIs :
               BuiltRowIndexes(updates'[1].routings, oui) = {} =>
                 /\ (oui \in DOMAIN clients') = (oui \in DOMAIN clients)
                 /\ oui \in DOMAIN clients => clients'[oui] = clients[oui]
     /\ (handled' # handled \/ tasks' # tasks) =>
          UNCHANGED <<clients, routing_height>>]_vars

\* the table holds both OUIs, the response handled last wrote one of them, and
\* an uplink has since been fanned out by the entry of the other
C19_Witness ==
  /\ DOMAIN clients = OUIs
  /\ updates # <<>>
  /\ \E oui \in OUIs :
       /\ BuiltRowIndexes(updates[1].routings, oui) = {}
       /\ handled.called /\ handled.result = "Ok" /\ HasRoutingKey(handled.uplink)
       /\ MatchingOuis(clients, handled.uplink.packet.routing) = {oui}
       /\ handled.spawned # <<>>
       /\ TargetsOf(handled) = clients[oui].clients

(* ------------------------ routing stream claims ----------------------- *)
\* C13 as stated: once the routing stream has ended or failed, Router::run
\* handles no further uplink.
C13_StreamEndOrErrorFatal ==
  [][(stream \in {"ended", "failed"}) => UNCHANGED handled]_vars

\* C13 amended: a transport error of the routing stream is fatal (Router::run
\* panics and from then on handles no uplink, spawns no task and leaves the
\* table and the height alone), while the end of the stream is only logged:
\* the step leaves Router::run in its loop with its state untouched.
C13_StreamErrorFatalEndLogged ==
  [][/\ stream' = "failed" => rt_pc' = "panicked"
     /\ rt_pc = "panicked" =>
          /\ UNCHANGED <<handled, routerVars, rt_pc>>
          /\ \A task \in BagToSet(tasks') :
               CopiesIn(task, tasks') <= CopiesIn(task, tasks)
     /\ (stream = "open" /\ stream' = "ended") =>
          /\ rt_pc' = "select"
          /\ UNCHANGED <<handled, routerVars, tasks>>]_vars

\* an uplink was fanned out by a call made after the stream had ended
C13_Witness ==
  /\ stream = "ended"
  /\ rt_pc = "select"
  /\ handled.called /\ handled.stream = "ended"
  /\ handled.spawned # <<>>

(* --------------------------- shutdown claims -------------------------- *)
\* C12: once the shutdown signal has fired, Gateway::run and Router::run both
\* eventually return Ok(()).
C12_ShutdownReturns ==
  shutdown ~> (gw_pc = "returned" /\ rt_pc = "returned")

C18_OneEventPerIterationNoStarvation ==
  /\ [][/\ ~(Len(udp_events') < Len(udp_events) /\ Len(downlinks') < Len(downlinks))
        /\ (gw_pc # "returned" /\ gw_pc' = "returned") =>
             (gw_pc = "select" /\ UNCHANGED <<udp_events, downlinks>>)
        /\ (Len(udp_events') < Len(udp_events) \/ Len(downlinks') < Len(downlinks)) =>
             (gw_pc = "select" /\ gw_pc' # "returned")]_vars
  /\ Rx2DownlinkQueued ~> (Rx2DownlinkInHand \/ shutdown)
  /\ KeyedEventWaiting ~> (KeyedUplinkQueued \/ KeyedPacket(gw_uplink) \/ shutdown)

\* an event and a downlink are both waiting while an earlier uplink send is
\* pending on the full uplinks queue
C18_Witness ==
  /\ gw_pc = "send_uplink"
  /\ Len(uplinks) = QueueCap
  /\ KeyedEventWaiting
  /\ Rx2DownlinkQueued
  /\ ~shutdown

\* both main loops are running
BothRunning == gw_pc # "returned" /\ rt_pc = "select"
\* a fan-out task is waiting for room in the downlinks queue
TaskBlocked == \E task \in BagToSet(tasks) : task.pc = "send"

\* C20: only fan-out tasks put downlinks on the downlinks queue, never a step
\* of Router::run; and while both main loops are running, an uplink send of
\* the Gateway pending on the full uplinks queue eventually completes, the
\* downlinks queue on which a task is waiting eventually has room, and if from
\* some point on a task is always waiting, waiting sends complete again and
\* again.
C20_NoCircularWait ==
  /\ [][Len(downlinks') > Len(downlinks) =>
          /\ UNCHANGED <<uplinks, rt_pc, routerVars>>
          /\ \E task \in BagToSet(tasks) : tasks' = tasks (-) SetToBag({task})]_vars
  /\ (gw_pc = "send_uplink") ~> (gw_pc # "send_uplink" \/ ~BothRunning)
  /\ TaskBlocked ~> (Len(downlinks) < QueueCap \/ ~BothRunning)
  /\ \/ []<>(~TaskBlocked)
     \/ []<><<TaskSendDownlink>>_vars
     \/ <>[](~BothRunning)

\* both queues are full, the Gateway is waiting to send an uplink and a task is
\* waiting to send a downlink, with both main loops running
C20_Witness ==
  /\ gw_pc = "send_uplink"
  /\ Len(uplinks) = QueueCap
  /\ Len(downlinks) = QueueCap
  /\ TaskBlocked
  /\ rt_pc = "select"
  /\ ~shutdown

(* --------------------------- downlink claims -------------------------- *)
TooEarlyOrLate == {"TOO_EARLY", "TOO_LATE"}
\* handle_downlink has returned from the call recorded in dispatches
DownlinkHandled == gw_pc \in {"select", "send_uplink"} /\ dispatches # <<>>

\* C5: a dispatch on window 2 is only ever made right after the RX1 dispatch
\* of the same downlink returned TOO_EARLY or TOO_LATE; after any other RX1
\* result (Ok, NONE, another error) handle_downlink returns with that single
\* dispatch.
C5_Rx2OnlyAfterTooEarlyOrLate ==
  /\ \A i \in 1..Len(dispatches) :
       dispatches[i].window = 2 =>
         /\ i = 2
         /\ dispatches[1].window = 1
         /\ dispatches[1].result \in TooEarlyOrLate
  /\ gw_pc = "rx2" => dispatches[1].result \in TooEarlyOrLate
  /\ (DownlinkHandled /\ dispatches[1].result \notin TooEarlyOrLate) =>
       Len(dispatches) = 1

\* a downlink with an RX2 form whose RX1 dispatch timed out, not retried
C5_Witness ==
  /\ DownlinkHandled
  /\ gw_downlink.packet.rx2
  /\ dispatches[1].result = "TIMEOUT"
  /\ Len(dispatches) = 1

\* C6: a downlink causes at most two dispatches; once handle_downlink has
\* returned there are exactly two, on windows 1 and 2, if the RX1 dispatch
\* returned TOO_EARLY or TOO_LATE and the packet has an RX2 form, whatever the
\* second returned, and exactly one, on window 1, otherwise.
C6_OneRetryOnWindow2 ==
  /\ Len(dispatches) <= 2
  /\ DownlinkHandled =>
       IF dispatches[1].result \in TooEarlyOrLate /\ to_pull_resp(gw_downlink, TRUE) # <<>>
       THEN /\ Len(dispatches) = 2
            /\ dispatches[1].window = 1 /\ dispatches[2].window = 2
            /\ dispatches[2].result \in DispatchResults
       ELSE /\ Len(dispatches) = 1
            /\ dispatches[1].window = 1

\* RX1 was too early, the RX2 dispatch was too late, and nothing followed
C6_Witness ==
  /\ DownlinkHandled
  /\ Len(dispatches) = 2
  /\ dispatches[1].result = "TOO_EARLY"
  /\ dispatches[2].result = "TOO_LATE"

(* ---------------------------- uplink claims --------------------------- *)
\* the events whose packet handle_udp_event may send: PacketReceived events
\* whose lift succeeds and is not LongFi
Liftable(event) ==
  /\ event.kind = "PacketReceived"
  /\ event.rxpk.frame \notin {"malformed", "longfi"}
NoLongFiQueued ==
  /\ \A i \in 1..Len(uplinks) : uplinks[i].packet.type # "longfi"
  /\ gw_pc = "send_uplink" => gw_uplink.packet.type # "longfi"

\* C7: no LongFi packet is ever in (or waiting to enter) the uplinks queue;
\* handling any event other than a PacketReceived whose lift succeeds and is
\* not LongFi leaves the queue and the pending send alone; and every step
\* that lengthens the queue is the send of such an event's packet.
C7_LongFiNeverQueued ==
  [][/\ NoLongFiQueued'
     /\ \A event \in Events :
          (GwHandleUdpEvent(event) /\ ~Liftable(event)) =>
            UNCHANGED <<uplinks, gw_pc, gw_uplink>>
     /\ Len(uplinks') > Len(uplinks) =>
          \/ GwSendUplink
          \/ \E event \in Events : Liftable(event) /\ GwHandleUdpEvent(event)]_vars

\* a LongFi frame was dropped while an uplink sat in the queue
C7_Witness ==
  /\ gw_log = "ignoring longfi packet"
  /\ uplinks # <<>>
  /\ gw_pc = "select"

\* C8: every downlink, on the downlinks queue, held by a task or being
\* dispatched, carries the gateway_mac of the uplink whose route RPC produced
\* it, and every dispatch of a downlink, on window 1 or 2, goes to that
\* gateway_mac.
C8_DownlinkToOriginatingMac ==
  /\ \A i \in 1..Len(downlinks) : downlinks[i].gateway_mac = downlinks[i].origin
  /\ \A task \in BagToSet(tasks) :
       /\ task.gateway_mac = task.origin.gateway_mac
       /\ task.pc = "send" => task.downlink.gateway_mac = task.origin.gateway_mac
  /\ \A i \in 1..Len(dispatches) : dispatches[i].gateway_mac = gw_downlink.origin

\* a downlink for the second concentrator went out on both windows while a
\* task of an uplink of the first was still running
C8_Witness ==
  /\ Len(dispatches) = 2
  /\ dispatches[2].gateway_mac = "m2"
  /\ \E task \in BagToSet(tasks) : task.origin.gateway_mac = "m1"

====
